---- MODULE Spec2Model ----
(* Outbound campaign dialer: CampaignDialerManager of                      *)
(* src/backend/campaign_dialer_service.py, run on one asyncio event loop.  *)
(* One action is one stretch of code between two suspension points (await  *)
(* asyncio.sleep, a blocked semaphore acquire, asyncio.gather); the        *)
(* control functions create/start/pause/stop are synchronous and therefore *)
(* one action each.  The persistence layer, the telephony provider and the *)
(* do-not-call registry are external collaborators: persistence keeps what *)
(* was written and hands out a fresh copy on every read, the provider       *)
(* answers nondeterministically, the registry is a set of listed numbers   *)
(* that does not change during a behaviour.  The timestamps created_at and *)
(* paused_at, which the dialer writes and never reads, are left out.       *)
EXTENDS Integers, Sequences, FiniteSets, TLC

(* ---------------------------------------------------------------------- *)
(* Bounds of the model                                                     *)
(* ---------------------------------------------------------------------- *)
MaxRuns == 2          \* successful start_campaign calls (scheduler runs) explored
MaxContacts == 2      \* valid contacts in a submitted contact list

(* ---------------------------------------------------------------------- *)
(* Program constants                                                       *)
(* ---------------------------------------------------------------------- *)
MaxCallsLow == 1      \* _validate_campaign_data: max_calls < 1 is rejected
MaxCallsHigh == 50    \* _validate_campaign_data: max_calls > 50 is rejected
Saturday == 5         \* _is_calling_hours_compliant: weekday() >= 5

Campaigns == {"c1"}

\* CampaignStatus, CallStatus
CampaignStatus == {"draft", "scheduled", "active", "paused", "completed", "cancelled"}
CallStatus == {"pending", "dialing", "connected", "no_answer", "busy", "failed",
               "completed", "voicemail"}

(* ---------------------------------------------------------------------- *)
(* The wall clock: a weekday (Python numbering, Monday = 0) and a time of   *)
(* day in hours.  Between two steps any amount of time may pass.           *)
(* ---------------------------------------------------------------------- *)
\* the instants the dialer is observed at: a Friday inside the calling
\* hours of the inputs below, and the same Friday after them
Clock == {[weekday |-> 4, time |-> 1], [weekday |-> 4, time |-> 3]}
NoTime == [weekday |-> -1, time |-> -1]

(* ---------------------------------------------------------------------- *)
(* Contact validator                                                       *)
(* ---------------------------------------------------------------------- *)
Digits == {"0", "1", "2", "3", "4", "5", "6", "7", "8", "9"}

IsDigit(ch) == ch \in Digits

\* ''.join(filter(str.isdigit, phone))
OnlyDigits(phone) == SelectSeq(phone, IsDigit)

NoPhone == << >>

\* _clean_phone_number taking any 11 digits for a number with country code
CleanAnyElevenDigits(phone) ==
    IF phone = << >> THEN NoPhone
    ELSE LET cleaned == OnlyDigits(phone) IN
         IF Len(cleaned) = 10 THEN <<"+", "1">> \o cleaned
         ELSE IF Len(cleaned) = 11 THEN <<"+">> \o cleaned
         ELSE NoPhone

\* _clean_phone_number: None is modelled as the empty sequence
CleanPhoneNumber(phone) ==
    IF phone = << >> THEN NoPhone
    ELSE LET cleaned == OnlyDigits(phone) IN
         IF Len(cleaned) = 10 THEN <<"+", "1">> \o cleaned
         ELSE IF Len(cleaned) = 11 /\ Head(cleaned) = "1" THEN <<"+">> \o cleaned
         ELSE NoPhone

ProcessedContact(phone) ==
    [phone_number |-> phone, attempts |-> 0, status |-> "pending"]

RECURSIVE ProcessContactList(_)
\* _process_contact_list
ProcessContactList(contacts) ==
    IF contacts = << >> THEN << >>
    ELSE LET contact == Head(contacts)
             rest == ProcessContactList(Tail(contacts))
             phone == CleanPhoneNumber(contact.phone_number)
         IN IF contact.phone_number = << >> THEN rest
            ELSE IF phone = NoPhone THEN rest
            ELSE <<ProcessedContact(phone)>> \o rest

\* _validate_campaign_data: the set of error messages
ValidateCampaignData(data) ==
    (IF ~data.name THEN {"Campaign name is required"} ELSE {})
    \cup (IF ~data.agent_id THEN {"Agent ID is required"} ELSE {})
    \cup (IF data.contacts = << >> THEN {"Valid contacts list is required"} ELSE {})
    \cup (IF data.max_concurrent_calls < MaxCallsLow
             \/ data.max_concurrent_calls > MaxCallsHigh
          THEN {"Max concurrent calls must be between 1 and 50"} ELSE {})

(* ---------------------------------------------------------------------- *)
(* Compliance gate                                                         *)
(* ---------------------------------------------------------------------- *)
\* the gate with the closing hour compared one hour late
CompliantClosingLate(t, settings) ==
    IF settings.exclude_weekends /\ t.weekday >= Saturday THEN FALSE
    ELSE settings.calling_hours_start <= t.time
         /\ t.time <= settings.calling_hours_end + 1

\* the gate taking the Saturday alone for the weekend
CompliantExceptSaturday(t, settings) ==
    IF settings.exclude_weekends /\ t.weekday = Saturday THEN FALSE
    ELSE settings.calling_hours_start <= t.time
         /\ t.time <= settings.calling_hours_end

\* _is_calling_hours_compliant, read at clock value t
IsCallingHoursCompliantAt(t, settings) ==
    IF settings.exclude_weekends /\ t.weekday >= Saturday THEN FALSE
    ELSE settings.calling_hours_start <= t.time
         /\ t.time <= settings.calling_hours_end

(* ---------------------------------------------------------------------- *)
(* Inputs of create_campaign                                               *)
(* ---------------------------------------------------------------------- *)
DashedPhone(i) == <<"5", "5", "5", "-", "1", "2", "3", "-", "4", "5", "6">>
                  \o <<CHOOSE d \in Digits : d = ToString(i)>>
ShortPhone == <<"1", "2", "3">>

\* a raw contact list with n dialable entries and one entry that is dropped
RawContacts(n) ==
    [i \in 1..n |-> [phone_number |-> DashedPhone(i)]]
    \o <<[phone_number |-> ShortPhone]>>

BaseData ==
    [name |-> TRUE, agent_id |-> TRUE, contacts |-> RawContacts(MaxContacts),
     max_concurrent_calls |-> 1, retry_attempts |-> 0,
     call_timeout_seconds |-> 10, respect_do_not_call |-> TRUE,
     calling_hours_start |-> 1, calling_hours_end |-> 2,
     exclude_weekends |-> TRUE]

CampaignInputs ==
    { BaseData,
      [BaseData EXCEPT !.name = FALSE],
      [BaseData EXCEPT !.agent_id = FALSE, !.max_concurrent_calls = 51],
      [BaseData EXCEPT !.max_concurrent_calls = 0],
      [BaseData EXCEPT !.contacts = << >>],
      [BaseData EXCEPT !.contacts = <<[phone_number |-> ShortPhone]>>] }

(* ---------------------------------------------------------------------- *)
(* State                                                                   *)
(* ---------------------------------------------------------------------- *)
VARIABLES
    now,               \* the wall clock
    db,                \* persistence: campaign id -> stored campaign
    active_campaigns,  \* self.active_campaigns: campaign id -> campaign dict
    runs,              \* the _execute_campaign tasks, in creation order
    calls,             \* the stored call records: call id -> record
    running_calls,     \* self.running_calls: the ids registered as running
    dnc,               \* the do-not-call registry: the listed numbers
    result             \* the control call of the last step: what it was
                       \* called with and what it returned

vars == <<now, db, active_campaigns, runs, calls, running_calls, dnc, result>>

NoInput == << >>
NoResult == [op |-> "none", cid |-> "none", success |-> FALSE, error |-> "none",
             errors |-> {}, input |-> NoInput]
Result(op, cid, ok, err) ==
    [op |-> op, cid |-> cid, success |-> ok, error |-> err,
     errors |-> {}, input |-> NoInput]

\* a control call on a campaign that is not stored reporting success
NotFoundAsSuccess(op, cid) == Result(op, cid, TRUE, "none")

\* what start, pause, stop and get_campaign_status return when
\* _get_campaign finds no campaign
NotFound(op, cid) == Result(op, cid, FALSE, "Campaign not found")

\* what create_campaign returns for campaign_data = data; errors is the
\* list validation_result['errors'] its error message quotes
CreateResult(cid, data, ok, err, errors) ==
    [op |-> "create", cid |-> cid, success |-> ok, error |-> err,
     errors |-> errors, input |-> data]

ZeroStats ==
    [calls_attempted |-> 0, calls_connected |-> 0, calls_completed |-> 0,
     calls_failed |-> 0, average_duration |-> 0, conversion_rate |-> 0]

\* _calculate_campaign_stats
CalculateCampaignStats(cid) == ZeroStats

\* _should_complete_campaign
ShouldCompleteCampaign(cid) == FALSE

\* _get_pending_contacts: the positions of the contacts that are selected
GetPendingContacts(contacts) ==
    SelectSeq([i \in 1..Len(contacts) |-> i],
              LAMBDA i : contacts[i].status = "pending")

\* settings = CampaignSettings(...).__dict__ of create_campaign
SettingsOf(data) ==
    [max_concurrent_calls |-> data.max_concurrent_calls,
     retry_attempts |-> data.retry_attempts,
     call_timeout_seconds |-> data.call_timeout_seconds,
     respect_do_not_call |-> data.respect_do_not_call,
     calling_hours_start |-> data.calling_hours_start,
     calling_hours_end |-> data.calling_hours_end,
     exclude_weekends |-> data.exclude_weekends]

\* the campaign of create_campaign built with the status active
NewCampaignActive(cid, data, contacts) ==
    [id |-> cid, contacts |-> contacts, settings |-> SettingsOf(data),
     status |-> "active", started_at |-> NoTime,
     completed_at |-> NoTime,
     stats |-> ZeroStats]

\* create_campaign: the campaign as it is built and stored
NewCampaign(cid, data, contacts) ==
    [id |-> cid, contacts |-> contacts, settings |-> SettingsOf(data),
     status |-> "draft", started_at |-> NoTime,
     completed_at |-> NoTime,
     stats |-> ZeroStats]

\* persistence, _get_campaign: a campaign with this id is stored
CampaignFound(cid) == cid \in DOMAIN db

\* persistence, _get_campaign: a fresh copy of the stored campaign
GetCampaign(cid) == db[cid]

\* persistence, _store_campaign and _update_campaign: the store with the
\* campaign written to it
Stored(cid, campaign) == (cid :> campaign) @@ db

\* the registries the dialer is run against
DncRegistries == {{}, {CleanPhoneNumber(DashedPhone(1))}}

\* _is_do_not_call: the registry's answer
IsDoNotCall(phone) == phone \in dnc

Init ==
    /\ now \in Clock
    /\ db = << >>
    /\ active_campaigns = << >>
    /\ runs = << >>
    /\ calls = << >>
    /\ running_calls = {}
    /\ dnc \in DncRegistries
    /\ result = NoResult

\* the clock moves on to another of the given instants
TickWithin(instants) ==
    /\ \E t \in instants : t # now /\ now' = t
    /\ result' = NoResult
    /\ UNCHANGED <<db, active_campaigns, runs, calls, running_calls, dnc>>

\* the clock moves on
Tick == TickWithin(Clock)

(* ---------------------------------------------------------------------- *)
(* Control surface                                                         *)
(* ---------------------------------------------------------------------- *)
\* what can go wrong in a collaborator during a control call: the
\* persistence write (_store_campaign returns False, _update_campaign
\* raises) and asyncio.create_task (it raises without a running event loop)
Faults == {"write", "hand-off"}
NoFaults == {}

\* create_campaign, the collaborators failing in the ways of faults
CreateCampaignUnder(faults, cid, data) ==
    /\ ~CampaignFound(cid)
    /\ LET errors == ValidateCampaignData(data)
           contacts == ProcessContactList(data.contacts)
       IN IF errors # {}
          THEN /\ result' = CreateResult(cid, data, FALSE, "Invalid campaign data", errors)
               /\ UNCHANGED db
          ELSE IF contacts = << >>
          THEN /\ result' = CreateResult(cid, data, FALSE, "No valid contacts provided", {})
               /\ UNCHANGED db
          ELSE \/ /\ db' = Stored(cid, NewCampaign(cid, data, contacts))
                  /\ result' = CreateResult(cid, data, TRUE, "none", {})
               \/ /\ "write" \in faults
                  /\ result' = CreateResult(cid, data, FALSE,
                                            "Failed to store campaign in database", {})
                  /\ UNCHANGED db
    /\ UNCHANGED <<now, active_campaigns, runs, calls, running_calls, dnc>>

\* create_campaign
CreateCampaign(cid, data) == CreateCampaignUnder(NoFaults, cid, data)

\* the task asyncio.create_task(self._execute_campaign(campaign_id)) creates
NewRun(cid) ==
    [cid |-> cid, pc |-> "start", status |-> "none", pending |-> << >>,
     idx |-> 1, sem |-> 0, tasks |-> << >>]

\* the status test of start_campaign letting an active campaign through
StartableOrActive(status) == status \in {"draft", "scheduled", "paused", "active"}

\* start_campaign: the statuses it accepts
StartableStatus(status) == status \in {"draft", "scheduled", "paused"}

\* start_campaign, the collaborators failing in the ways of faults
StartCampaignUnder(faults, cid) ==
    /\ IF ~CampaignFound(cid)
       THEN /\ result' = NotFound("start", cid)
            /\ UNCHANGED <<db, active_campaigns, runs>>
       ELSE IF ~StartableStatus(GetCampaign(cid).status)
       THEN /\ result' = Result("start", cid, FALSE, "Cannot start campaign with status")
            /\ UNCHANGED <<db, active_campaigns, runs>>
       ELSE IF ~IsCallingHoursCompliantAt(now, GetCampaign(cid).settings)
       THEN /\ result' = Result("start", cid, FALSE, "Cannot start campaign outside of configured calling hours")
            /\ UNCHANGED <<db, active_campaigns, runs>>
       ELSE LET campaign == [GetCampaign(cid) EXCEPT !.status = "active",
                                                     !.started_at = now]
            IN \/ /\ Len(runs) < MaxRuns
                  /\ db' = Stored(cid, campaign)
                  /\ active_campaigns' = (cid :> campaign) @@ active_campaigns
                  /\ runs' = Append(runs, NewRun(cid))
                  /\ result' = Result("start", cid, TRUE, "none")
               \/ \* _update_campaign raises
                  /\ "write" \in faults
                  /\ result' = Result("start", cid, FALSE, "Failed to start campaign")
                  /\ UNCHANGED <<db, active_campaigns, runs>>
               \/ \* asyncio.create_task raises
                  /\ "hand-off" \in faults
                  /\ db' = Stored(cid, campaign)
                  /\ active_campaigns' = (cid :> campaign) @@ active_campaigns
                  /\ result' = Result("start", cid, FALSE, "Failed to start campaign")
                  /\ UNCHANGED runs
    /\ UNCHANGED <<now, calls, running_calls, dnc>>

\* start_campaign
StartCampaign(cid) == StartCampaignUnder(NoFaults, cid)

\* the status test of pause_campaign letting a paused campaign through
PausableOrPaused(status) == status \in {"active", "paused"}

\* pause_campaign: the status it accepts
PausableStatus(status) == status = "active"

\* pause_campaign, the collaborators failing in the ways of faults
PauseCampaignUnder(faults, cid) ==
    /\ IF ~CampaignFound(cid)
       THEN /\ result' = NotFound("pause", cid)
            /\ UNCHANGED <<db, active_campaigns>>
       ELSE IF ~PausableStatus(GetCampaign(cid).status)
       THEN /\ result' = Result("pause", cid, FALSE, "Campaign is not active")
            /\ UNCHANGED <<db, active_campaigns>>
       ELSE LET campaign == [GetCampaign(cid) EXCEPT !.status = "paused"]
            IN \/ /\ db' = Stored(cid, campaign)
                  /\ active_campaigns' =
                        IF cid \in DOMAIN active_campaigns
                        THEN [active_campaigns EXCEPT ![cid] = campaign]
                        ELSE active_campaigns
                  /\ result' = Result("pause", cid, TRUE, "none")
               \/ \* _update_campaign raises
                  /\ "write" \in faults
                  /\ result' = Result("pause", cid, FALSE, "Failed to pause campaign")
                  /\ UNCHANGED <<db, active_campaigns>>
    /\ UNCHANGED <<now, runs, calls, running_calls, dnc>>

\* pause_campaign
PauseCampaign(cid) == PauseCampaignUnder(NoFaults, cid)

\* stop_campaign leaving the entry of cid in the registry
WithoutForgotten(registry, cid) == registry

\* stop_campaign taking only a paused campaign out of the registry
WithoutWhenPaused(registry, cid) ==
    [c \in {d \in DOMAIN registry : d # cid \/ registry[d].status # "paused"}
        |-> registry[c]]

\* the registry without the entry of cid
Without(registry, cid) == [c \in DOMAIN registry \ {cid} |-> registry[c]]

\* stop_campaign: the campaign as it is written back
StoppedCampaign(cid) ==
    [GetCampaign(cid) EXCEPT !.status = "completed", !.completed_at = now,
                             !.stats = CalculateCampaignStats(cid)]

\* stop_campaign, the collaborators failing in the ways of faults
StopCampaignUnder(faults, cid) ==
    /\ IF ~CampaignFound(cid)
       THEN /\ result' = NotFound("stop", cid)
            /\ UNCHANGED <<db, active_campaigns>>
       ELSE \/ /\ db' = Stored(cid, StoppedCampaign(cid))
               /\ active_campaigns' = Without(active_campaigns, cid)
               /\ result' = Result("stop", cid, TRUE, "none")
            \/ \* _update_campaign raises
               /\ "write" \in faults
               /\ result' = Result("stop", cid, FALSE, "Failed to stop campaign")
               /\ UNCHANGED <<db, active_campaigns>>
    /\ UNCHANGED <<now, runs, calls, running_calls, dnc>>

\* stop_campaign
StopCampaign(cid) == StopCampaignUnder(NoFaults, cid)

\* what get_campaign_status returns for a stored campaign
StatusResult(cid, campaign, stats, active_calls) ==
    [op |-> "status", cid |-> cid, success |-> TRUE, error |-> "none",
     errors |-> {}, input |-> NoInput,
     status |-> campaign.status, started_at |-> campaign.started_at,
     stats |-> stats, active_calls |-> active_calls]

\* _get_active_campaign_calls counting every running call
EveryRunningCall(cid) == running_calls

\* _get_active_campaign_calls: the running calls of campaign cid
GetActiveCampaignCalls(cid) ==
    {id \in running_calls : calls[id].campaign_id = cid}

\* get_campaign_status
GetCampaignStatus(cid) ==
    /\ IF ~CampaignFound(cid)
       THEN result' = NotFound("status", cid)
       ELSE result' = StatusResult(cid, GetCampaign(cid),
                                   CalculateCampaignStats(cid),
                                   Cardinality(GetActiveCampaignCalls(cid)))
    /\ UNCHANGED <<now, db, active_campaigns, runs, calls, running_calls, dnc>>

(* ---------------------------------------------------------------------- *)
(* Dialer scheduler                                                        *)
(* ---------------------------------------------------------------------- *)
IdleTask == [pc |-> "none"]

\* a call id made of the contact's position alone
CallIdOfContact(r, k) == <<1, k>>

\* str(uuid.uuid4()) of _make_campaign_call: the id of the record that the
\* task of run r for the contact at position k creates
CallId(r, k) == <<r, k>>

\* a finished _execute_campaign task: nothing of it is left
FinishedRun(cid) ==
    [cid |-> cid, pc |-> "done", status |-> "none", pending |-> << >>,
     idx |-> 1, sem |-> 0, tasks |-> << >>]

\* _execute_campaign, after the for loop: gather the tasks, then the
\* completion check
AfterGather(r) ==
    /\ runs' = [runs EXCEPT ![r] = FinishedRun(runs[r].cid)]
    /\ IF ShouldCompleteCampaign(runs[r].cid) /\ CampaignFound(runs[r].cid)
       THEN /\ db' = Stored(runs[r].cid, StoppedCampaign(runs[r].cid))
            /\ active_campaigns' = Without(active_campaigns, runs[r].cid)
       ELSE UNCHANGED <<db, active_campaigns>>

\* _execute_campaign: one pass of the for loop over pending_contacts, from
\* the loop head to the next suspension point
LoopPass(r, run) ==
    IF run.idx <= Len(run.pending) /\ run.status = "active"
    THEN /\ runs' = [runs EXCEPT ![r] =
                [run EXCEPT !.pc = "sleep", !.idx = run.idx + 1,
                            !.tasks[run.pending[run.idx]].pc = "waiting"]]
         /\ UNCHANGED <<db, active_campaigns>>
    ELSE IF \E k \in 1..Len(run.tasks) : run.tasks[k].pc # "none"
    THEN /\ runs' = [runs EXCEPT ![r] = [run EXCEPT !.pc = "gather"]]
         /\ UNCHANGED <<db, active_campaigns>>
    ELSE AfterGather(r)

\* _execute_campaign from its start to its first suspension point
ExecStart(r) ==
    /\ r \in 1..Len(runs)
    /\ runs[r].pc = "start"
    /\ IF runs[r].cid \notin DOMAIN active_campaigns
       THEN /\ runs' = [runs EXCEPT ![r] = FinishedRun(runs[r].cid)]
            /\ UNCHANGED <<db, active_campaigns>>
       ELSE LET campaign == active_campaigns[runs[r].cid]
                run == [runs[r] EXCEPT
                          !.status = campaign.status,
                          !.pending = GetPendingContacts(campaign.contacts),
                          !.sem = campaign.settings.max_concurrent_calls,
                          !.tasks = [k \in 1..Len(campaign.contacts) |-> IdleTask]]
            IN LoopPass(r, run)
    /\ result' = NoResult
    /\ UNCHANGED <<now, calls, running_calls, dnc>>

\* _execute_campaign resumed after await asyncio.sleep(1)
ExecLoop(r) ==
    /\ r \in 1..Len(runs)
    /\ runs[r].pc = "sleep"
    /\ LoopPass(r, runs[r])
    /\ result' = NoResult
    /\ UNCHANGED <<now, calls, running_calls, dnc>>

\* _execute_campaign resumed when asyncio.gather has every task's result
ExecGather(r) ==
    /\ r \in 1..Len(runs)
    /\ runs[r].pc = "gather"
    /\ \A k \in 1..Len(runs[r].tasks) : runs[r].tasks[k].pc \in {"none", "done"}
    /\ AfterGather(r)
    /\ result' = NoResult
    /\ UNCHANGED <<now, calls, running_calls, dnc>>

\* what the provider's status poll can report as the end reason
EndReasons == {"completed"}

\* _make_campaign_call returning without dialing and keeping its slot
SkipCallKeepingSlot(r, k) ==
    /\ runs' = [runs EXCEPT ![r].sem = runs[r].sem - 1,
                            ![r].tasks[k].pc = "done"]
    /\ UNCHANGED <<calls, running_calls>>

\* _make_campaign_call returns without dialing
SkipCall(r, k) ==
    /\ runs' = [runs EXCEPT ![r].tasks[k].pc = "done"]
    /\ UNCHANGED <<calls, running_calls>>

\* the status test of _make_campaign_call looking at the registration only
CampaignIsRegistered(cid) == cid \in DOMAIN active_campaigns

\* _make_campaign_call: the campaign is registered and active
CampaignIsActive(cid) ==
    /\ cid \in DOMAIN active_campaigns
    /\ active_campaigns[cid].status = "active"

\* _make_campaign_call dialing without the calling hours check
CallingHoursUnchecked(cid) == TRUE

\* _make_campaign_call: the calling hours check
CallingHoursOk(cid) == IsCallingHoursCompliantAt(now, active_campaigns[cid].settings)

\* _make_campaign_call: the call record as it is created; of the end time
\* only whether ended_at has been written is kept
NewCallRecord(cid, r, k) ==
    [id |-> CallId(r, k), campaign_id |-> cid, contact |-> k,
     status |-> "dialing",
     attempts |-> active_campaigns[cid].contacts[k].attempts + 1,
     ended_at |-> "none", failure_reason |-> "none", end_reason |-> "none"]

\* the record of a rejected call left without its end time
RejectedWithoutEndTime(rec) ==
    [rec EXCEPT !.status = "failed", !.failure_reason = "placement failed"]

\* _make_campaign_call: the record when _initiate_vapi_call reports a
\* failure; the failure reason is the error it reports
RejectedRecord(rec) ==
    [rec EXCEPT !.status = "failed", !.ended_at = "written",
                !.failure_reason = "placement failed"]

\* the task has returned from _make_campaign_call
EndedTask == [IdleTask EXCEPT !.pc = "done"]

\* _make_campaign_call from the record's creation to the next suspension
\* point: the place-call request, and the first status poll of
\* _monitor_call, the provider reporting end reasons among reasons and the
\* writes of the call record failing in the ways of faults
PlaceCallUnder(faults, reasons, r, k) ==
    LET cid == runs[r].cid
        rec == NewCallRecord(cid, r, k)
        failed == RejectedRecord(rec)
        connected == [rec EXCEPT !.status = "connected"]
    IN \/ \* _initiate_vapi_call reports a failure
          /\ calls' = (rec.id :> failed) @@ calls
          /\ runs' = [runs EXCEPT ![r].tasks[k] = EndedTask]
          /\ UNCHANGED running_calls
       \/ \* placed, and the first poll reports the call ended
          /\ \E reason \in reasons :
                calls' = (rec.id :> [rec EXCEPT !.status = "completed",
                                                 !.ended_at = "written",
                                                 !.end_reason = reason]) @@ calls
          /\ runs' = [runs EXCEPT ![r].tasks[k] = EndedTask]
          /\ UNCHANGED running_calls
       \/ \* placed, not ended: await asyncio.sleep(5) holding the slot
          /\ calls' = (rec.id :> connected) @@ calls
          /\ running_calls' = running_calls \cup {rec.id}
          /\ runs' = [runs EXCEPT ![r].sem = runs[r].sem - 1,
                                  ![r].tasks[k] =
                        [IdleTask EXCEPT !.pc = "monitoring"]]
       \/ \* _store_call_record raises: on to the except branch
          /\ "write" \in faults
          /\ runs' = [runs EXCEPT ![r].tasks[k] = EndedTask]
          /\ UNCHANGED <<calls, running_calls>>
       \/ \* _update_call_record raises after the place-call request: on
          \* to the except branch, past the removal from running_calls
          /\ "write" \in faults
          /\ \E record \in {failed, connected} :
                calls' = (rec.id :> record) @@ calls
          /\ running_calls' = running_calls \cup {rec.id}
          /\ runs' = [runs EXCEPT ![r].tasks[k] = EndedTask]

PlaceCallEnding(reasons, r, k) == PlaceCallUnder(NoFaults, reasons, r, k)

PlaceCall(r, k) == PlaceCallEnding(EndReasons, r, k)

\* the dialer with one semaphore for all its scheduler runs
SlotFreeInEveryRun(r) == \A q \in 1..Len(runs) : runs[q].pc = "done" \/ runs[q].sem > 0

\* async with semaphore: the semaphore of run r has a free slot
SlotFree(r) == runs[r].sem > 0

\* _make_campaign_call from the acquired slot to the next suspension point
MakeCampaignCallUnder(faults, reasons, r, k) ==
    /\ r \in 1..Len(runs)
    /\ k \in 1..Len(runs[r].tasks)
    /\ runs[r].tasks[k].pc = "waiting"
    /\ SlotFree(r)
    /\ LET cid == runs[r].cid IN
       IF ~CampaignIsActive(cid) THEN SkipCall(r, k)
       ELSE IF ~CallingHoursOk(cid) THEN SkipCall(r, k)
       ELSE IF active_campaigns[cid].settings.respect_do_not_call
               /\ IsDoNotCall(active_campaigns[cid].contacts[k].phone_number)
       THEN SkipCall(r, k)
       ELSE PlaceCallUnder(faults, reasons, r, k)
    /\ result' = NoResult
    /\ UNCHANGED <<now, db, active_campaigns, dnc>>

MakeCampaignCallEnding(reasons, r, k) ==
    MakeCampaignCallUnder(NoFaults, reasons, r, k)

MakeCampaignCall(r, k) == MakeCampaignCallEnding(EndReasons, r, k)

\* the running calls with the call of an ended task left among them
StillRegistered(running, id) == running

\* _make_campaign_call: del self.running_calls[call_id]
Unregistered(running, id) == running \ {id}

\* the semaphore still held when the task has left async with
Held(sem) == sem

\* the semaphore given two slots when the task has left async with
ReleasedTwice(sem) == sem + 2

\* the semaphore after the task has left async with semaphore
Released(sem) == sem + 1

\* _monitor_call resumed after await asyncio.sleep(5), with the provider
\* reporting the call ended: to the end of _make_campaign_call
MonitorEndedWith(reasons, r, k) ==
    /\ r \in 1..Len(runs)
    /\ k \in 1..Len(runs[r].tasks)
    /\ runs[r].tasks[k].pc = "monitoring"
    /\ \E reason \in reasons :
          calls' = [calls EXCEPT ![CallId(r, k)].status = "completed",
                                 ![CallId(r, k)].ended_at = "written",
                                 ![CallId(r, k)].end_reason = reason]
    /\ running_calls' = Unregistered(running_calls, CallId(r, k))
    /\ runs' = [runs EXCEPT ![r].sem = Released(runs[r].sem),
                            ![r].tasks[k].pc = "done"]
    /\ result' = NoResult
    /\ UNCHANGED <<now, db, active_campaigns, dnc>>

MonitorEnded(r, k) == MonitorEndedWith(EndReasons, r, k)

\* the timeout branch of _monitor_call writing the status connected
TimedOutStillConnected(status) == "connected"

\* the timeout branch of _monitor_call leaving the status as it is
TimedOutUnchanged(status) == status

\* the status the timeout branch of _monitor_call leaves a record with
TimedOutStatus(status) ==
    IF status \notin {"completed", "failed"} THEN "failed" ELSE status

\* _monitor_call resumed after await asyncio.sleep(5), with
\* call_timeout_seconds elapsed: to the end of _make_campaign_call
MonitorTimeout(r, k) ==
    /\ r \in 1..Len(runs)
    /\ k \in 1..Len(runs[r].tasks)
    /\ runs[r].tasks[k].pc = "monitoring"
    /\ LET id == CallId(r, k) IN
       calls' = [calls EXCEPT
                   ![id].status = TimedOutStatus(calls[id].status),
                   ![id].ended_at =
                       IF calls[id].status \notin {"completed", "failed"}
                       THEN "written" ELSE calls[id].ended_at,
                   ![id].failure_reason =
                       IF calls[id].status \notin {"completed", "failed"}
                       THEN "Call timeout" ELSE calls[id].failure_reason]
    /\ running_calls' = Unregistered(running_calls, CallId(r, k))
    /\ runs' = [runs EXCEPT ![r].sem = Released(runs[r].sem),
                            ![r].tasks[k].pc = "done"]
    /\ result' = NoResult
    /\ UNCHANGED <<now, db, active_campaigns, dnc>>

Next ==
    \/ Tick
    \/ \E cid \in Campaigns, data \in CampaignInputs : CreateCampaign(cid, data)
    \/ \E cid \in Campaigns : StartCampaign(cid)
    \/ \E cid \in Campaigns : PauseCampaign(cid)
    \/ \E cid \in Campaigns : StopCampaign(cid)
    \/ \E r \in 1..MaxRuns : ExecStart(r)
    \/ \E r \in 1..MaxRuns : ExecLoop(r)
    \/ \E r \in 1..MaxRuns : ExecGather(r)
    \/ \E r \in 1..MaxRuns, k \in 1..MaxContacts : MakeCampaignCall(r, k)
    \/ \E r \in 1..MaxRuns, k \in 1..MaxContacts : MonitorEnded(r, k)
    \/ \E r \in 1..MaxRuns, k \in 1..MaxContacts : MonitorTimeout(r, k)

Spec == Init /\ [][Next]_vars

\* every timer of a sleeping monitor fires, and the wall clock reaches the
\* timeout of every monitored call
Fairness ==
    \A r \in 1..MaxRuns, k \in 1..MaxContacts :
        WF_vars(MonitorEnded(r, k) \/ MonitorTimeout(r, k))

FairSpec == Spec /\ Fairness

(* ---------------------------------------------------------------------- *)
(* The control surface alone: the calls of create, start, pause and stop   *)
(* that arrive before the event loop runs any scheduler task, observed at  *)
(* more instants: two inside the calling hours, one after them, and one on *)
(* a Saturday                                                              *)
(* ---------------------------------------------------------------------- *)
WideClock ==
    Clock \cup {[weekday |-> 4, time |-> 2], [weekday |-> 5, time |-> 1]}

ControlNext ==
    \/ TickWithin(WideClock)
    \/ \E cid \in Campaigns, data \in CampaignInputs : CreateCampaign(cid, data)
    \/ \E cid \in Campaigns : StartCampaign(cid)
    \/ \E cid \in Campaigns : PauseCampaign(cid)
    \/ \E cid \in Campaigns : StopCampaign(cid)

ControlSpec == Init /\ [][ControlNext]_vars

(* ---------------------------------------------------------------------- *)
(* The dialer run on a campaign that allows one retry per contact          *)
(* ---------------------------------------------------------------------- *)
RetryData == [BaseData EXCEPT !.retry_attempts = 1]

RetryNext ==
    \/ Tick
    \/ \E cid \in Campaigns : CreateCampaign(cid, RetryData)
    \/ \E cid \in Campaigns : StartCampaign(cid)
    \/ \E cid \in Campaigns : PauseCampaign(cid)
    \/ \E cid \in Campaigns : StopCampaign(cid)
    \/ \E r \in 1..MaxRuns : ExecStart(r)
    \/ \E r \in 1..MaxRuns : ExecLoop(r)
    \/ \E r \in 1..MaxRuns : ExecGather(r)
    \/ \E r \in 1..MaxRuns, k \in 1..MaxContacts : MakeCampaignCall(r, k)
    \/ \E r \in 1..MaxRuns, k \in 1..MaxContacts : MonitorEnded(r, k)
    \/ \E r \in 1..MaxRuns, k \in 1..MaxContacts : MonitorTimeout(r, k)

RetrySpec == Init /\ [][RetryNext]_vars

(* ---------------------------------------------------------------------- *)
(* create_campaign alone, called with every combination of a present or    *)
(* missing name and agent_id, a max_concurrent_calls at and beyond each    *)
(* end of its range, and every contact list of up to MaxListLen entries    *)
(* ---------------------------------------------------------------------- *)
MaxListLen == 2       \* entries in a submitted contact list

\* 11 digits with the country code, 11 digits without it
PrefixedPhone == <<"1", " ", "(", "5", "5", "5", ")", " ", "9", "8", "7", "-",
                   "6", "5", "4", "3">>
ForeignPhone == <<"2", "5", "5", "5", "9", "8", "7", "6", "5", "4", "3">>

RawPhones == {DashedPhone(1), PrefixedPhone, ForeignPhone, ShortPhone, NoPhone}

RawEntries == {[phone_number |-> phone] : phone \in RawPhones}

ContactLists == UNION {[1..n -> RawEntries] : n \in 0..MaxListLen}

MaxCallsProbes == {MaxCallsLow - 1, MaxCallsLow, MaxCallsHigh, MaxCallsHigh + 1}

WideInputs ==
    {[BaseData EXCEPT !.name = name, !.agent_id = agent,
                      !.max_concurrent_calls = max_calls, !.contacts = contacts] :
        name \in BOOLEAN, agent \in BOOLEAN, max_calls \in MaxCallsProbes,
        contacts \in ContactLists}

CreateNext ==
    \E cid \in Campaigns, data \in WideInputs : CreateCampaign(cid, data)

\* create_campaign reads neither the clock nor the registry
CreateInit == Init /\ now = [weekday |-> 4, time |-> 1] /\ dnc = {}

CreateSpec == CreateInit /\ [][CreateNext]_vars

(* ---------------------------------------------------------------------- *)
(* The compliance gate as start_campaign reads it: campaigns with and       *)
(* without exclude_weekends, with a window of two hours and of one, started *)
(* on a Friday, a Saturday and a Sunday, before, at and after both ends of  *)
(* the window                                                              *)
(* ---------------------------------------------------------------------- *)
GateClock == {[weekday |-> d, time |-> h] : d \in {4, 5, 6}, h \in 0..3}

GateInputs ==
    {[BaseData EXCEPT !.exclude_weekends = weekends,
                      !.calling_hours_start = start] :
        weekends \in BOOLEAN, start \in {1, 2}}

GateNext ==
    \/ TickWithin(GateClock)
    \/ \E cid \in Campaigns, data \in GateInputs : CreateCampaign(cid, data)
    \/ \E cid \in Campaigns : StartCampaign(cid)
    \/ \E cid \in Campaigns : PauseCampaign(cid)
    \/ \E cid \in Campaigns : StopCampaign(cid)

GateSpec == Init /\ [][GateNext]_vars

(* ---------------------------------------------------------------------- *)
(* One scheduler run of a campaign, inside its calling hours, against a    *)
(* provider whose status poll reports every kind of end: an answered call, *)
(* the ends that are no completion, and the api_error that                 *)
(* _get_vapi_call_status makes of a poll that failed                       *)
(* ---------------------------------------------------------------------- *)
ProviderReasons == {"completed", "no_answer", "busy", "voicemail", "api_error"}

ProviderNext ==
    \/ \E cid \in Campaigns : CreateCampaign(cid, BaseData)
    \/ \E cid \in Campaigns : StartCampaign(cid)
    \/ \E cid \in Campaigns : StopCampaign(cid)
    \/ \E r \in 1..MaxRuns : ExecStart(r)
    \/ \E r \in 1..MaxRuns : ExecLoop(r)
    \/ \E r \in 1..MaxRuns : ExecGather(r)
    \/ \E r \in 1..MaxRuns, k \in 1..MaxContacts :
          MakeCampaignCallEnding(ProviderReasons, r, k)
    \/ \E r \in 1..MaxRuns, k \in 1..MaxContacts :
          MonitorEndedWith(ProviderReasons, r, k)
    \/ \E r \in 1..MaxRuns, k \in 1..MaxContacts : MonitorTimeout(r, k)

ProviderInit == Init /\ now = [weekday |-> 4, time |-> 1] /\ dnc = {}

ProviderSpec == ProviderInit /\ [][ProviderNext]_vars

(* ---------------------------------------------------------------------- *)
(* Two campaigns served by the one dialer, inside their calling hours,     *)
(* together with the status query: campaign c1 with MaxContacts contacts   *)
(* and campaign c2 with one                                                *)
(* ---------------------------------------------------------------------- *)
PairCampaigns == {"c1", "c2"}

PairData(cid) ==
    IF cid = "c1" THEN BaseData ELSE [BaseData EXCEPT !.contacts = RawContacts(1)]

PairNext ==
    \/ \E cid \in PairCampaigns : CreateCampaign(cid, PairData(cid))
    \/ \E cid \in PairCampaigns : StartCampaign(cid)
    \/ \E cid \in PairCampaigns : PauseCampaign(cid)
    \/ \E cid \in PairCampaigns : StopCampaign(cid)
    \/ \E cid \in PairCampaigns : GetCampaignStatus(cid)
    \/ \E r \in 1..MaxRuns : ExecStart(r)
    \/ \E r \in 1..MaxRuns : ExecLoop(r)
    \/ \E r \in 1..MaxRuns : ExecGather(r)
    \/ \E r \in 1..MaxRuns, k \in 1..MaxContacts : MakeCampaignCall(r, k)
    \/ \E r \in 1..MaxRuns, k \in 1..MaxContacts : MonitorEnded(r, k)
    \/ \E r \in 1..MaxRuns, k \in 1..MaxContacts : MonitorTimeout(r, k)

PairInit == Init /\ now = [weekday |-> 4, time |-> 1] /\ dnc = {}

PairSpec == PairInit /\ [][PairNext]_vars

(* ---------------------------------------------------------------------- *)
(* The control surface with collaborators that can fail: a persistence     *)
(* write that does not go through, and a scheduler hand-off that raises    *)
(* ---------------------------------------------------------------------- *)
FaultNext ==
    \/ Tick
    \/ \E cid \in Campaigns, data \in CampaignInputs :
          CreateCampaignUnder(Faults, cid, data)
    \/ \E cid \in Campaigns : StartCampaignUnder(Faults, cid)
    \/ \E cid \in Campaigns : PauseCampaignUnder(Faults, cid)
    \/ \E cid \in Campaigns : StopCampaignUnder(Faults, cid)

FaultSpec == Init /\ [][FaultNext]_vars

(* ---------------------------------------------------------------------- *)
(* One scheduler run whose tasks can fail in every way: the provider       *)
(* rejects the call, the status poll fails (api_error), the call times     *)
(* out, a write of the call record raises.  The event loop runs every task *)
(* that is ready: a task that can take its slot takes it, and the timer of *)
(* a sleeping monitor fires.                                               *)
(* ---------------------------------------------------------------------- *)
TaskReasons == {"completed", "api_error"}

TaskFaultNext ==
    \/ \E cid \in Campaigns : CreateCampaign(cid, BaseData)
    \/ \E cid \in Campaigns : StartCampaign(cid)
    \/ \E cid \in Campaigns : StopCampaign(cid)
    \/ \E r \in 1..MaxRuns : ExecStart(r)
    \/ \E r \in 1..MaxRuns : ExecLoop(r)
    \/ \E r \in 1..MaxRuns : ExecGather(r)
    \/ \E r \in 1..MaxRuns, k \in 1..MaxContacts :
          MakeCampaignCallUnder(Faults, TaskReasons, r, k)
    \/ \E r \in 1..MaxRuns, k \in 1..MaxContacts :
          MonitorEndedWith(TaskReasons, r, k)
    \/ \E r \in 1..MaxRuns, k \in 1..MaxContacts : MonitorTimeout(r, k)

TaskFaultFairness ==
    \A r \in 1..MaxRuns, k \in 1..MaxContacts :
        /\ WF_vars(MakeCampaignCallUnder(Faults, TaskReasons, r, k))
        /\ WF_vars(MonitorEndedWith(TaskReasons, r, k) \/ MonitorTimeout(r, k))

TaskFaultSpec == ProviderInit /\ [][TaskFaultNext]_vars /\ TaskFaultFairness

(* ---------------------------------------------------------------------- *)
(* The dialer with every way out of a contact's task: the call ends or     *)
(* times out, the provider rejects it, the campaign is paused or stopped,  *)
(* the clock leaves the calling hours, the number is listed, a write of    *)
(* the call record raises                                                  *)
(* ---------------------------------------------------------------------- *)
SlotNext ==
    \/ Tick
    \/ \E cid \in Campaigns : CreateCampaign(cid, BaseData)
    \/ \E cid \in Campaigns : StartCampaign(cid)
    \/ \E cid \in Campaigns : PauseCampaign(cid)
    \/ \E cid \in Campaigns : StopCampaign(cid)
    \/ \E r \in 1..MaxRuns : ExecStart(r)
    \/ \E r \in 1..MaxRuns : ExecLoop(r)
    \/ \E r \in 1..MaxRuns : ExecGather(r)
    \/ \E r \in 1..MaxRuns, k \in 1..MaxContacts :
          MakeCampaignCallUnder(Faults, EndReasons, r, k)
    \/ \E r \in 1..MaxRuns, k \in 1..MaxContacts : MonitorEnded(r, k)
    \/ \E r \in 1..MaxRuns, k \in 1..MaxContacts : MonitorTimeout(r, k)

SlotSpec == Init /\ [][SlotNext]_vars

(* ---------------------------------------------------------------------- *)
(* Vocabulary of the properties                                            *)
(* ---------------------------------------------------------------------- *)
InFlightStatus == {"dialing", "connected"}
TerminalStatus == {"completed", "failed", "no_answer", "busy", "voicemail"}

\* the call records of campaign cid, and those of its contact at position k
CallsOf(cid) == {id \in DOMAIN calls : calls[id].campaign_id = cid}
CallsOfContact(cid, k) == {id \in CallsOf(cid) : calls[id].contact = k}
InFlightOf(cid) == {id \in CallsOf(cid) : calls[id].status \in InFlightStatus}

\* the call records the step creates for campaign cid
CreatedCalls(cid) ==
    {id \in DOMAIN calls' \ DOMAIN calls : calls'[id].campaign_id = cid}

\* the compliance window as the design states it
WithinWindow(t, settings) ==
    /\ ~(settings.exclude_weekends /\ t.weekday \in {5, 6})
    /\ settings.calling_hours_start <= t.time
    /\ t.time <= settings.calling_hours_end

\* the step is the task of run r for contact k going through
\* _make_campaign_call up to its next suspension point
TaskStep(r, k) ==
    /\ r \in 1..Len(runs)
    /\ k \in 1..Len(runs[r].tasks)
    /\ runs[r].tasks[k].pc = "waiting"
    /\ r \in 1..Len(runs')
    /\ k \in 1..Len(runs'[r].tasks)
    /\ runs'[r].tasks[k].pc # "waiting"

(* ---------------------------------------------------------------------- *)
(* C1..C10                                                                 *)
(* ---------------------------------------------------------------------- *)
\* C1: in every reachable state the number of a campaign's call records
\* with status dialing or connected is at most settings.max_concurrent_calls
C1_ConcurrencyBound ==
    \A cid \in DOMAIN db :
        Cardinality(InFlightOf(cid)) <= db[cid].settings.max_concurrent_calls

\* C2: in every reachable state a contact has at most one call record
\* with status dialing or connected
C2_OneInFlightPerContact ==
    \A cid \in DOMAIN db : \A k \in 1..Len(db[cid].contacts) :
        Cardinality(CallsOfContact(cid, k) \cap InFlightOf(cid)) <= 1

\* C3: a step creates a call record (and places the provider call) only
\* when the clock is inside the campaign's compliance window in that step
C3_DialOnlyInsideWindow ==
    [][\A cid \in DOMAIN db :
          CreatedCalls(cid) # {} => WithinWindow(now, db[cid].settings)]_vars

\* a campaign that has been active without a pause, a call it placed, and
\* a task that came to its slot after the clock left the window and has
\* returned without dialing
C3_Witness ==
    /\ Len(runs) = 1
    /\ "c1" \in DOMAIN active_campaigns
    /\ active_campaigns["c1"].status = "active"
    /\ dnc = {}
    /\ ~WithinWindow(now, db["c1"].settings)
    /\ CallsOf("c1") # {}
    /\ \E k \in 1..Len(runs[1].tasks) :
          runs[1].tasks[k].pc = "done" /\ CallId(1, k) \notin DOMAIN calls

\* C4: a task that finds its contact's number listed, with
\* respect_do_not_call set, creates no call record, no call record of the
\* contact ever exists, and the step leaves the contact marked exhausted
C4_DoNotCallExhausts ==
    [][\A cid \in DOMAIN active_campaigns : \A r \in 1..Len(runs) :
       \A k \in 1..Len(active_campaigns[cid].contacts) :
          ( /\ runs[r].cid = cid
            /\ TaskStep(r, k)
            /\ active_campaigns[cid].status = "active"
            /\ WithinWindow(now, active_campaigns[cid].settings)
            /\ active_campaigns[cid].settings.respect_do_not_call
            /\ active_campaigns[cid].contacts[k].phone_number \in dnc )
          => /\ calls' = calls
             /\ CallsOfContact(cid, k) = {}
             /\ \/ active_campaigns'[cid].contacts[k].status = "exhausted"
                \/ db'[cid].contacts[k].status = "exhausted"]_vars

\* C5: in every reachable state a contact's attempts field is the number
\* of calls placed for the contact, and is at most retry_attempts + 1
C5_AttemptsCountCalls ==
    \A cid \in DOMAIN db : \A k \in 1..Len(db[cid].contacts) :
        /\ db[cid].contacts[k].attempts = Cardinality(CallsOfContact(cid, k))
        /\ db[cid].contacts[k].attempts <= db[cid].settings.retry_attempts + 1

\* the contact at position k has had a call that ended completed or
\* voicemail, or as many ended calls as retry_attempts + 1
Finished(cid, k) ==
    \/ \E id \in CallsOfContact(cid, k) : calls[id].status \in {"completed", "voicemail"}
    \/ Cardinality({id \in CallsOfContact(cid, k) : calls[id].status \in TerminalStatus})
          >= db[cid].settings.retry_attempts + 1

\* C6: a contact whose call ended completed or voicemail, or whose
\* attempts are used up, is done or exhausted, and no step creates a
\* further call record for it
C6_NoRedialOnceFinished ==
    [][\A cid \in DOMAIN db : \A k \in 1..Len(db[cid].contacts) :
          Finished(cid, k) =>
             /\ db[cid].contacts[k].status \in {"done", "exhausted"}
             /\ \A id \in CreatedCalls(cid) : calls'[id].contact # k]_vars

C8_StopAdmitsNoNewCalls ==
    [][\A cid \in DOMAIN db :
         /\ (result'.op = "stop" /\ result'.cid = cid /\ result'.success)
               => UNCHANGED <<calls, running_calls, runs>>
         /\ db[cid].status = "completed"
               => /\ db'[cid].status = "completed"
                  /\ CreatedCalls(cid) = {}
                  /\ \A id \in InFlightOf(cid) :
                        calls'[id].status \in InFlightStatus \cup {"completed", "failed"}
                  /\ \A id \in running_calls \cap CallsOf(cid) :
                        id \notin running_calls'
                           => calls'[id].status \in {"completed", "failed"}
      ]_vars

\* stop_campaign has just succeeded while one task monitors its call and
\* another waits for the slot
C8_Witness ==
    /\ result.op = "stop"
    /\ result.success
    /\ db["c1"].status = "completed"
    /\ \E r \in 1..Len(runs) :
          /\ Len(runs[r].tasks) = 2
          /\ runs[r].sem = 0
          /\ \E k \in 1..2 : /\ runs[r].tasks[k].pc = "monitoring"
                             /\ runs[r].tasks[3 - k].pc = "waiting"

\* C9: start_campaign succeeds only from draft, scheduled or paused; from
\* active, completed or cancelled it returns a failure and leaves the
\* stored campaign, the registry and the scheduler tasks unchanged
C9_StartOnlyFromStartable ==
    [][\A cid \in DOMAIN db :
         (result'.op = "start" /\ result'.cid = cid) =>
            /\ result'.success => db[cid].status \in {"draft", "scheduled", "paused"}
            /\ db[cid].status \in {"active", "completed", "cancelled"}
                  => /\ ~result'.success
                     /\ UNCHANGED <<db, active_campaigns, runs>>]_vars

\* start_campaign has just been refused on an active campaign
C9_Witness ==
    /\ result.op = "start"
    /\ ~result.success
    /\ "c1" \in DOMAIN db
    /\ db["c1"].status = "active"
    /\ WithinWindow(now, db["c1"].settings)

Called(op, cid) == result'.op = op /\ result'.cid = cid

\* C11: pause_campaign succeeds only on an active campaign, which it leaves
\* paused; on a campaign with any other status it returns a failure and
\* changes nothing
C11_PauseOnlyFromActive ==
    [][\A cid \in DOMAIN db :
         Called("pause", cid) =>
            /\ result'.success => /\ db[cid].status = "active"
                                  /\ db'[cid].status = "paused"
            /\ db[cid].status # "active"
                  => /\ ~result'.success
                     /\ UNCHANGED <<now, db, active_campaigns, runs, calls,
                                    running_calls>>]_vars

\* pause_campaign has just been refused on a campaign that an earlier
\* pause_campaign has paused
C11_Witness ==
    /\ result.op = "pause"
    /\ ~result.success
    /\ "c1" \in DOMAIN db
    /\ db["c1"].status = "paused"

\* C12: stop_campaign on a completed campaign returns a failure and leaves
\* the stored campaign (status, completed_at, stats) as it is
C12_StopTwiceIsNoOp ==
    [][\A cid \in DOMAIN db :
         (Called("stop", cid) /\ db[cid].status = "completed")
            => /\ ~result'.success
               /\ db'[cid] = db[cid]]_vars

\* the edges of the campaign state machine
StateMachineEdges ==
    { <<"draft", "scheduled">>, <<"draft", "active">>, <<"scheduled", "active">>,
      <<"active", "paused">>, <<"paused", "active">>,
      <<"active", "completed">>, <<"paused", "completed">> }
    \cup { <<s, "cancelled">> : s \in {"draft", "scheduled", "active", "paused"} }

\* C13: every change of a campaign's status is an edge of the state
\* machine; a completed or cancelled campaign keeps its status and no
\* start, pause or stop on it succeeds
C13_StatusFollowsStateMachine ==
    [][\A cid \in DOMAIN db :
         /\ db'[cid].status # db[cid].status
               => <<db[cid].status, db'[cid].status>> \in StateMachineEdges
         /\ db[cid].status \in {"completed", "cancelled"}
               => /\ db'[cid].status = db[cid].status
                  /\ \A op \in {"start", "pause", "stop"} :
                        Called(op, cid) => ~result'.success]_vars

\* the number of call records of campaign cid with a status among statuses
CountCalls(cid, statuses) ==
    Cardinality({id \in CallsOf(cid) : calls[id].status \in statuses})

\* C14: stop_campaign on a draft, scheduled, active or paused campaign
\* succeeds, leaves it completed with completed_at recorded, and stores the
\* counts of the campaign's call records of that moment as its stats
C14_StopCompletesWithStats ==
    [][\A cid \in DOMAIN db :
         (Called("stop", cid)
          /\ db[cid].status \in {"draft", "scheduled", "active", "paused"})
            => /\ result'.success
               /\ db'[cid].status = "completed"
               /\ db'[cid].completed_at = now
               /\ db'[cid].stats.calls_attempted = Cardinality(CallsOf(cid))
               /\ db'[cid].stats.calls_completed = CountCalls(cid, {"completed"})
               /\ db'[cid].stats.calls_failed
                     = CountCalls(cid, {"failed", "no_answer", "busy"})]_vars

\* C15: a successful start_campaign leaves the campaign active, and writes
\* started_at only when it has not been written before
C15_StartedAtOnlyOnFirstStart ==
    [][\A cid \in DOMAIN db :
         (Called("start", cid) /\ result'.success)
            => /\ db'[cid].status = "active"
               /\ db'[cid].started_at =
                     IF db[cid].started_at = NoTime THEN now
                     ELSE db[cid].started_at]_vars

\* every scheduler run of campaign cid has come to its end
RunsFinished(cid) ==
    /\ \E r \in 1..Len(runs) : runs[r].cid = cid
    /\ \A r \in 1..Len(runs) : runs[r].cid = cid => runs[r].pc = "done"

\* C16: when the scheduler has come to its end for a campaign that is not
\* paused and none of whose contacts is left to dial, the campaign is
\* completed
C16_CompletesWhenNothingIsLeft ==
    \A cid \in DOMAIN db :
        ( /\ RunsFinished(cid)
          /\ db[cid].status # "paused"
          /\ \A k \in 1..Len(db[cid].contacts) : Finished(cid, k) )
        => db[cid].status = "completed"

\* the call records of the contact at position k that have ended
EndedCalls(cid, k) ==
    {id \in CallsOfContact(cid, k) : calls[id].status \in TerminalStatus}

\* a call of the contact at position k ended completed or voicemail
Reached(cid, k) ==
    \E id \in CallsOfContact(cid, k) : calls[id].status \in {"completed", "voicemail"}

\* C17: a contact with a call that ended completed or voicemail is done; a
\* contact whose retry_attempts + 1 calls all ended otherwise is exhausted;
\* and when the scheduler run of a campaign that was active throughout has
\* come to its end, a contact whose calls all ended no_answer, busy or
\* failed has had retry_attempts + 1 calls
C17_RetryUntilDoneOrExhausted ==
    \A cid \in DOMAIN db : \A k \in 1..Len(db[cid].contacts) :
        /\ Reached(cid, k) => db[cid].contacts[k].status = "done"
        /\ ( ~Reached(cid, k)
             /\ Cardinality(EndedCalls(cid, k)) >= db[cid].settings.retry_attempts + 1 )
              => db[cid].contacts[k].status = "exhausted"
        /\ ( /\ Len(runs) = 1
             /\ runs[1].cid = cid
             /\ runs[1].pc = "done"
             /\ db[cid].status = "active"
             /\ EndedCalls(cid, k) # {}
             /\ ~Reached(cid, k) )
              => Cardinality(CallsOfContact(cid, k))
                    >= db[cid].settings.retry_attempts + 1

\* the positions of the digits of a phone number, and the number of its
\* digits up to position i
DigitPositions(phone) == {i \in 1..Len(phone) : phone[i] \in Digits}
DigitsUpTo(phone, i) == Cardinality({h \in DigitPositions(phone) : h <= i})

\* the digits of a phone number, in their order
StrippedOf(phone) ==
    [j \in 1..Cardinality(DigitPositions(phone)) |->
        phone[CHOOSE i \in DigitPositions(phone) : DigitsUpTo(phone, i) = j]]

\* the same for every phone number that is submitted
SubmittedPhones == RawPhones \cup {DashedPhone(i) : i \in 1..MaxContacts}
DigitsOf == [phone \in SubmittedPhones |-> StrippedOf(phone)]

\* the entry is kept: 10 digits, or 11 digits of which the first is 1
Kept(entry) ==
    LET digits == DigitsOf[entry.phone_number] IN
    \/ Len(digits) = 10
    \/ Len(digits) = 11 /\ digits[1] = "1"

\* the contact a kept entry becomes
ExpectedContact(entry) ==
    LET digits == DigitsOf[entry.phone_number] IN
    [phone_number |-> IF Len(digits) = 10 THEN <<"+", "1">> \o digits
                      ELSE <<"+">> \o digits,
     attempts |-> 0, status |-> "pending"]

\* the contacts of the kept entries of a list, in the order of the list
KeptPositions(list) == {i \in 1..Len(list) : Kept(list[i])}
ExpectedContacts(list) ==
    [j \in 1..Cardinality(KeptPositions(list)) |->
        ExpectedContact(list[CHOOSE i \in KeptPositions(list) :
                                 Cardinality({h \in KeptPositions(list) : h <= i}) = j])]

\* name, agent_id and max_concurrent_calls of the input are acceptable
ValidFields(data) ==
    data.name /\ data.agent_id /\ data.max_concurrent_calls \in 1..50

\* C18: create_campaign with acceptable fields and a contact that is kept
\* returns success and stores a draft campaign with zero counters; it
\* spawns no scheduler task and registers nothing as active
C18_CreateReturnsDraft ==
    [][\A cid \in Campaigns :
         ( /\ Called("create", cid)
           /\ ValidFields(result'.input)
           /\ KeptPositions(result'.input.contacts) # {} )
         => /\ result'.success
            /\ cid \in DOMAIN db'
            /\ db'[cid].status = "draft"
            /\ db'[cid].stats.calls_attempted = 0
            /\ db'[cid].stats.calls_connected = 0
            /\ db'[cid].stats.calls_completed = 0
            /\ db'[cid].stats.calls_failed = 0
            /\ runs' = << >>
            /\ active_campaigns' = << >>]_vars

\* create_campaign has just succeeded with max_concurrent_calls at the
\* upper end of its range and a list of which one entry was dropped
C18_Witness ==
    /\ result.op = "create"
    /\ result.success
    /\ result.input.max_concurrent_calls = 50
    /\ Len(result.input.contacts) = 2
    /\ Len(db["c1"].contacts) = 1
    /\ db["c1"].status = "draft"

\* what is wrong with an input of create_campaign
Violations(data) ==
    (IF ~data.name THEN {"name"} ELSE {})
    \cup (IF ~data.agent_id THEN {"agent_id"} ELSE {})
    \cup (IF data.max_concurrent_calls \notin 1..50 THEN {"max_concurrent_calls"} ELSE {})
    \cup (IF KeptPositions(data.contacts) = {} THEN {"contacts"} ELSE {})

\* the violations a result of create_campaign names
Named(res) ==
    LET messages == res.errors \cup {res.error} IN
    (IF "Campaign name is required" \in messages THEN {"name"} ELSE {})
    \cup (IF "Agent ID is required" \in messages THEN {"agent_id"} ELSE {})
    \cup (IF "Max concurrent calls must be between 1 and 50" \in messages
          THEN {"max_concurrent_calls"} ELSE {})
    \cup (IF messages \cap {"Valid contacts list is required",
                            "No valid contacts provided"} # {}
          THEN {"contacts"} ELSE {})

\* C19: create_campaign with an input that has a violation fails, stores
\* nothing, and its result names every violation of the input
C19_CreateNamesEveryViolation ==
    [][\A cid \in Campaigns :
         (Called("create", cid) /\ Violations(result'.input) # {})
         => /\ ~result'.success
            /\ db' = db
            /\ Violations(result'.input) \subseteq Named(result')]_vars

\* C20: the contacts of a created campaign are the contacts of the kept
\* entries of the submitted list, in the order of the list, each with
\* attempts 0 and status pending; a list of which no entry is kept makes
\* create_campaign fail with "No valid contacts provided"
C20_ValidatorKeepsDialable ==
    [][\A cid \in Campaigns :
         (Called("create", cid) /\ ValidFields(result'.input))
         => IF KeptPositions(result'.input.contacts) = {}
            THEN /\ ~result'.success
                 /\ result'.input.contacts # << >>
                       => result'.error = "No valid contacts provided"
                 /\ db' = db
            ELSE /\ result'.success
                 /\ db'[cid].contacts = ExpectedContacts(result'.input.contacts)]_vars

\* create_campaign has just succeeded with a list whose first entry has no
\* phone number and whose second entry has 11 digits with the country code
C20_Witness ==
    /\ result.op = "create"
    /\ result.success
    /\ Len(result.input.contacts) = 2
    /\ result.input.contacts[1].phone_number = NoPhone
    /\ result.input.contacts[2].phone_number = PrefixedPhone
    /\ Len(db["c1"].contacts) = 1
    /\ db["c1"].contacts[1].phone_number
          = <<"+", "1", "5", "5", "5", "9", "8", "7", "6", "5", "4", "3">>

(* ---------------------------------------------------------------------- *)
(* C21..C30                                                                *)
(* ---------------------------------------------------------------------- *)
\* C21: the gate, read by start_campaign on a campaign it may start, is
\* false whenever exclude_weekends is set and the day is a Saturday or a
\* Sunday, and otherwise true exactly when calling_hours_start <= time of
\* day <= calling_hours_end; its answer depends on nothing but the clock
\* and the settings
C21_GateIsWindowOfClockAndSettings ==
    [][\A cid \in DOMAIN db :
         (Called("start", cid) /\ db[cid].status \in {"draft", "scheduled", "paused"})
         => /\ result'.success <=> WithinWindow(now, db[cid].settings)
            /\ ~result'.success <=>
                  result'.error = "Cannot start campaign outside of configured calling hours"]_vars

\* start_campaign has just been refused on a Sunday, at the closing hour,
\* for a paused campaign that excludes weekends
C21_Witness ==
    /\ result.op = "start"
    /\ ~result.success
    /\ "c1" \in DOMAIN db
    /\ db["c1"].status = "paused"
    /\ db["c1"].settings.exclude_weekends
    /\ now.weekday = 6
    /\ now.time = db["c1"].settings.calling_hours_end

\* where the task that dials for call record id stands, the scheduler
\* runs being rs; the tasks of a run that has ended have ended
TaskPc(rs, id) ==
    IF rs[id[1]].pc = "done" THEN "done" ELSE rs[id[1]].tasks[id[2]].pc

\* the call record was forced to failed by the timeout
TimedOut(id) ==
    calls[id].status = "failed" /\ calls[id].failure_reason = "Call timeout"

\* C22: a monitored call that leaves the monitor without an end reported
\* by the provider is failed with the timeout as its failure reason; from
\* then on its task has ended, so the provider is not polled for it, it is
\* not registered as running, and no step changes the record
C22_TimeoutIsFinal ==
    /\ [][\A id \in DOMAIN calls :
            /\ ( /\ TaskPc(runs, id) = "monitoring"
                 /\ TaskPc(runs', id) # "monitoring"
                 /\ calls'[id].end_reason = "none" )
               => /\ calls'[id].status = "failed"
                  /\ calls'[id].failure_reason = "Call timeout"
            /\ TimedOut(id) => calls'[id] = calls[id]]_vars
    /\ [](\A id \in DOMAIN calls :
            TimedOut(id) => TaskPc(runs, id) = "done" /\ id \notin running_calls)

\* a call has timed out, and afterwards the other contact's call, placed
\* by the same scheduler run, was reported ended by the provider
C22_Witness ==
    /\ Len(runs) >= 1
    /\ Len(runs[1].tasks) = 2
    /\ \E k \in 1..2 :
          /\ CallId(1, k) \in DOMAIN calls
          /\ TimedOut(CallId(1, k))
          /\ CallId(1, 3 - k) \in DOMAIN calls
          /\ calls[CallId(1, 3 - k)].status = "completed"

\* the call status an end reason of the provider stands for
StatusOfEndReason(reason) ==
    IF reason \in {"completed", "no_answer", "busy", "voicemail", "failed"}
    THEN reason ELSE "failed"

\* C23: a call record that carries an end reason reported by the provider
\* has the status that end reason stands for, failed for every reason
\* without a status of its own (api_error among them); it is completed
\* only when the end reason is a completion
C23_StatusIsImageOfEndReason ==
    \A id \in DOMAIN calls :
        calls[id].end_reason # "none"
           => calls[id].status = StatusOfEndReason(calls[id].end_reason)

\* the stats are the counts of the call records of campaign cid
CountsCalls(stats, cid) ==
    /\ stats.calls_attempted = Cardinality(CallsOf(cid))
    /\ stats.calls_completed = CountCalls(cid, {"completed"})
    /\ stats.calls_failed = CountCalls(cid, {"failed", "no_answer", "busy"})
    /\ stats.calls_connected = CountCalls(cid, {"connected", "completed", "voicemail"})
    /\ stats.calls_attempted = 0 => stats.conversion_rate = 0

\* C24: the stats get_campaign_status returns, and the stats stop_campaign
\* stores, are the counts of the campaign's call records of that moment:
\* attempted all of them, completed those completed, failed those failed,
\* no_answer or busy, connected those connected, completed or voicemail,
\* and the conversion rate is 0 when nothing was attempted
C24_StatsCountCallRecords ==
    [][\A cid \in DOMAIN db :
         /\ (Called("status", cid) /\ result'.success)
               => CountsCalls(result'.stats, cid)
         /\ (Called("stop", cid) /\ result'.success)
               => CountsCalls(db'[cid].stats, cid)]_vars

\* C25: a create, start, pause or stop that returns a failure, whatever
\* made it fail, leaves the stored campaigns (status and timestamps), the
\* registry of active campaigns and the scheduler tasks as they were
C25_FailedControlCallChangesNothing ==
    [][\A cid \in Campaigns : \A op \in {"create", "start", "pause", "stop"} :
         (Called(op, cid) /\ ~result'.success)
            => UNCHANGED <<db, active_campaigns, runs>>]_vars

\* C26: a task of a campaign whose own calls in flight are fewer than its
\* max_concurrent_calls can take its slot and go on, however many calls
\* the other campaign has in flight; and a successful pause or stop of
\* one campaign leaves the other campaign's stored state, its entry in
\* the registry, its call records and its scheduler runs as they are
C26_CampaignsAreIndependent ==
    /\ [](\A r \in 1..Len(runs) : \A k \in 1..Len(runs[r].tasks) :
            ( /\ runs[r].tasks[k].pc = "waiting"
              /\ Cardinality(InFlightOf(runs[r].cid))
                    < db[runs[r].cid].settings.max_concurrent_calls )
            => ENABLED MakeCampaignCall(r, k))
    /\ [][\A a \in PairCampaigns : \A b \in PairCampaigns \ {a} :
            ((Called("pause", a) \/ Called("stop", a)) /\ result'.success)
            => /\ b \in DOMAIN db => db'[b] = db[b]
               /\ b \in DOMAIN active_campaigns
                     => /\ b \in DOMAIN active_campaigns'
                        /\ active_campaigns'[b] = active_campaigns[b]
               /\ \A id \in CallsOf(b) : calls'[id] = calls[id]
               /\ \A r \in 1..Len(runs) :
                     runs[r].cid = b => runs'[r] = runs[r]]_vars

\* campaign c1 has max_concurrent_calls calls in flight and a task waiting
\* for a slot, and campaign c2 has placed its call meanwhile and it is in
\* flight
C26_Witness ==
    /\ Len(runs) = 2
    /\ runs[1].cid = "c1"
    /\ runs[2].cid = "c2"
    /\ runs[1].sem = 0
    /\ Cardinality(InFlightOf("c1")) = db["c1"].settings.max_concurrent_calls
    /\ \E k \in 1..Len(runs[1].tasks) : runs[1].tasks[k].pc = "waiting"
    /\ Cardinality(InFlightOf("c2")) = 1

\* the step ends the task of run r for contact k
TaskEnds(r, k) ==
    /\ runs[r].pc # "done"
    /\ runs'[r].pc # "done"
    /\ runs[r].tasks[k].pc \in {"waiting", "monitoring"}
    /\ runs'[r].tasks[k].pc = "done"

\* the task of run r for contact k has ended in a failure: the call was
\* rejected or timed out, the status poll failed, or the task raised
\* (before its record was stored, or leaving it registered as running)
FailedTask(cs, running, r, k) ==
    \/ CallId(r, k) \notin DOMAIN cs
    \/ cs[CallId(r, k)].status = "failed"
    \/ cs[CallId(r, k)].end_reason = "api_error"
    \/ CallId(r, k) \in running

\* the tasks of run r that hold a slot of its semaphore
SlotHolders(rs, r) ==
    {k \in 1..Len(rs[r].tasks) : rs[r].tasks[k].pc = "monitoring"}

\* the task of run r for contact k exists and stands at pc
TaskAt(r, k, pc) ==
    IF r > Len(runs) THEN FALSE
    ELSE IF runs[r].pc = "done" THEN pc = "done"
    ELSE IF k > Len(runs[r].tasks) THEN FALSE
    ELSE runs[r].tasks[k].pc = pc

\* C27: a step in which a contact's task ends in a failure leaves the
\* stored campaign and its registry entry (the campaign's status) as they
\* are, returns nothing to a caller of the control surface, leaves every
\* other task where it stands and gives the slot back; and every task
\* that waits for its slot comes to its own end
C27_TaskFailuresAreIsolated ==
    /\ [][\A r \in 1..Len(runs) : \A k \in 1..Len(runs[r].tasks) :
            (TaskEnds(r, k) /\ FailedTask(calls', running_calls', r, k))
            => /\ UNCHANGED <<db, active_campaigns>>
               /\ result'.op = "none"
               /\ \A q \in 1..Len(runs) : \A h \in 1..Len(runs[q].tasks) :
                     <<q, h>> # <<r, k>> => runs'[q].tasks[h] = runs[q].tasks[h]
               /\ runs'[r].sem =
                     db[runs[r].cid].settings.max_concurrent_calls
                        - Cardinality(SlotHolders(runs', r))]_vars
    /\ \A r \in 1..MaxRuns, k \in 1..MaxContacts :
          TaskAt(r, k, "waiting") ~> TaskAt(r, k, "done")

\* the task of one contact has raised, leaving its call registered as
\* running, and the call of the other contact has been placed after it
\* and has ended completed, the campaign being active
C27_Witness ==
    /\ Len(runs) = 1
    /\ Len(runs[1].tasks) = 2
    /\ db["c1"].status = "active"
    /\ runs[1].tasks[1].pc = "done"
    /\ CallId(1, 1) \in running_calls
    /\ runs[1].tasks[2].pc = "done"
    /\ CallId(1, 2) \in DOMAIN calls
    /\ calls[CallId(1, 2)].status = "completed"
    /\ calls[CallId(1, 2)].end_reason = "completed"

Rejected(r, k) ==
    /\ TaskStep(r, k)
    /\ CallId(r, k) \in DOMAIN calls' \ DOMAIN calls
    /\ runs'[r].tasks[k].pc = "done"
    /\ calls'[CallId(r, k)].end_reason = "none"

\* the call record is one of a rejected place-call request
RejectedCall(id) ==
    calls[id].status = "failed" /\ calls[id].failure_reason = "placement failed"

\* C29: the step in which the provider rejects the place-call request
\* leaves the call record failed, with its end time and a failure reason
\* written, not registered as running, the task ended and the slots of
\* the run's semaphore as free as before the task took one; the record
\* never comes to a monitor: no later step changes it
C29_RejectedCallFailsAtOnce ==
    [][/\ \A r \in 1..Len(runs) : \A k \in 1..Len(runs[r].tasks) :
            Rejected(r, k)
            => /\ calls'[CallId(r, k)].status = "failed"
               /\ calls'[CallId(r, k)].ended_at = "written"
               /\ calls'[CallId(r, k)].failure_reason # "none"
               /\ CallId(r, k) \notin running_calls'
               /\ runs'[r].sem = runs[r].sem
       /\ \A id \in DOMAIN calls :
            RejectedCall(id)
            => /\ calls'[id] = calls[id]
               /\ TaskPc(runs', id) = "done"]_vars

\* the call of one contact was rejected, and the task of the other
\* contact has since taken the only slot and has its call in flight
C29_Witness ==
    /\ Len(runs) = 1
    /\ Len(runs[1].tasks) = 2
    /\ db["c1"].settings.max_concurrent_calls = 1
    /\ \E k \in 1..2 :
          /\ CallId(1, k) \in DOMAIN calls
          /\ RejectedCall(CallId(1, k))
          /\ calls[CallId(1, k)].ended_at = "written"
          /\ runs[1].tasks[3 - k].pc = "monitoring"

\* campaign cid is registered with the dialer and active
RegisteredActive(cid) ==
    cid \in DOMAIN active_campaigns /\ active_campaigns[cid].status = "active"

\* C30: a task that takes its slot while its campaign is not active, or
\* while the clock is outside the campaign's window, ends in that step
\* without creating a call record or registering a running call (no call
\* is placed); the campaign and its contacts stay as they are, the
\* contact pending with its attempts, and the slot is free again
C30_SkippedTaskLeavesNoTrace ==
    [][\A r \in 1..Len(runs) : \A k \in 1..Len(runs[r].tasks) :
         ( /\ TaskStep(r, k)
           /\ \/ ~RegisteredActive(runs[r].cid)
              \/ ~WithinWindow(now, db[runs[r].cid].settings) )
         => /\ UNCHANGED <<calls, running_calls, db, active_campaigns>>
            /\ db'[runs[r].cid].contacts[k].status = "pending"
            /\ db'[runs[r].cid].contacts[k].attempts
                  = db[runs[r].cid].contacts[k].attempts
            /\ runs'[r].tasks[k].pc = "done"
            /\ runs'[r].sem = runs[r].sem]_vars

\* the campaign was stopped while one contact's call was in flight; the
\* call has ended, and the other contact's task has taken the slot, found
\* the campaign gone, and returned without a call record, the slot free
C30_Witness ==
    /\ Len(runs) = 1
    /\ Len(runs[1].tasks) = 2
    /\ db["c1"].status = "completed"
    /\ "c1" \notin DOMAIN active_campaigns
    /\ WithinWindow(now, db["c1"].settings)
    /\ runs[1].sem = db["c1"].settings.max_concurrent_calls
    /\ \E k \in 1..2 :
          /\ runs[1].tasks[k].pc = "done"
          /\ CallId(1, k) \notin DOMAIN calls
          /\ db["c1"].contacts[k].status = "pending"
          /\ CallId(1, 3 - k) \in DOMAIN calls
          /\ calls[CallId(1, 3 - k)].status \in TerminalStatus

(* ---------------------------------------------------------------------- *)
(* C31..C37                                                                *)
(* ---------------------------------------------------------------------- *)
\* C31: a call record whose status is completed, failed, no_answer, busy
\* or voicemail is kept with that status by every step; a contact that is
\* dialed again gets a call record under a new id
C31_TerminalStatusIsFinal ==
    [][/\ \A id \in DOMAIN calls :
            calls[id].status \in TerminalStatus
            => /\ id \in DOMAIN calls'
               /\ calls'[id].status = calls[id].status
       /\ \A cid \in DOMAIN db : \A k \in 1..Len(db[cid].contacts) :
            (\E id \in CreatedCalls(cid) : calls'[id].contact = k)
            => Cardinality({id \in DOMAIN calls' :
                               /\ calls'[id].campaign_id = cid
                               /\ calls'[id].contact = k})
                  = Cardinality(CallsOfContact(cid, k)) + 1]_vars

\* a contact whose first call timed out was dialed again by a second
\* scheduler run: the call of the second run is in flight under its own
\* id and the first record is still failed
C31_Witness ==
    /\ Len(runs) = 2
    /\ \E k \in 1..MaxContacts :
          /\ CallId(1, k) \in DOMAIN calls
          /\ calls[CallId(1, k)].status = "failed"
          /\ calls[CallId(1, k)].failure_reason = "Call timeout"
          /\ CallId(2, k) \in DOMAIN calls
          /\ calls[CallId(2, k)].status = "connected"

\* the call of the task of run r for contact k has left the monitor, the
\* task has ended, and the call record has a terminal status
LeftMonitor(r, k) ==
    IF ~TaskAt(r, k, "done") THEN FALSE
    ELSE IF CallId(r, k) \notin DOMAIN calls THEN FALSE
    ELSE calls[CallId(r, k)].status \in TerminalStatus

\* C32: a call leaves the monitor with a terminal status and its end time
\* written, either with the end reason of the poll that reported it ended
\* (api_error when the poll failed) or failed by the timeout; and every
\* call that is handed to the monitor leaves it
C32_MonitorTerminates ==
    /\ [][\A r \in 1..Len(runs) : \A k \in 1..Len(runs[r].tasks) :
            (runs[r].tasks[k].pc = "monitoring" /\ TaskPc(runs', <<r, k>>) # "monitoring")
            => /\ calls'[CallId(r, k)].status \in TerminalStatus
               /\ calls'[CallId(r, k)].ended_at = "written"
               /\ \/ calls'[CallId(r, k)].end_reason # "none"
                  \/ calls'[CallId(r, k)].failure_reason = "Call timeout"
               /\ CallId(r, k) \notin running_calls']_vars
    /\ \A r \in 1..MaxRuns, k \in 1..MaxContacts :
          TaskAt(r, k, "monitoring") ~> LeftMonitor(r, k)

\* one call has left the monitor at a poll that failed, and the call of
\* the other contact, handed to the monitor after it, by the timeout
C32_Witness ==
    /\ Len(runs) = 1
    /\ Len(runs[1].tasks) = 2
    /\ \E k \in 1..2 :
          /\ LeftMonitor(1, k)
          /\ calls[CallId(1, k)].end_reason = "api_error"
          /\ LeftMonitor(1, 3 - k)
          /\ calls[CallId(1, 3 - k)].failure_reason = "Call timeout"

\* C33: in a scheduler run that has made its semaphore, the tasks that
\* hold a slot and the free slots add up to max_concurrent_calls, so a
\* task that has ended, whichever way it went out, holds no slot; and a
\* task that waits while fewer than max_concurrent_calls tasks of its run
\* hold a slot can take one
C33_SlotsAreConserved ==
    \A r \in 1..Len(runs) :
        runs[r].pc \notin {"start", "done"}
        => /\ runs[r].sem + Cardinality(SlotHolders(runs, r))
                 = db[runs[r].cid].settings.max_concurrent_calls
           /\ \A k \in 1..Len(runs[r].tasks) :
                 ( /\ runs[r].tasks[k].pc = "waiting"
                   /\ Cardinality(SlotHolders(runs, r))
                         < db[runs[r].cid].settings.max_concurrent_calls )
                 => ENABLED MakeCampaignCallUnder(Faults, EndReasons, r, k)

\* in one scheduler run the task of the first contact has raised after
\* its call was placed, and the task of the second contact has then got
\* the only slot and holds it while its call is monitored
C33_Witness ==
    /\ Len(runs) = 1
    /\ Len(runs[1].tasks) = 2
    /\ db["c1"].settings.max_concurrent_calls = 1
    /\ runs[1].tasks[1].pc = "done"
    /\ CallId(1, 1) \in running_calls
    /\ calls[CallId(1, 1)].status = "connected"
    /\ runs[1].tasks[2].pc = "monitoring"
    /\ runs[1].sem = 0

\* the scheduler runs of campaign cid that have not come to their end
LiveRuns(cid) == {r \in 1..Len(runs) : runs[r].cid = cid /\ runs[r].pc # "done"}

\* the scheduler runs of campaign cid with a task that waits for a slot
\* or monitors a call
BusyRuns(cid) ==
    {r \in LiveRuns(cid) :
        \E k \in 1..Len(runs[r].tasks) :
            runs[r].tasks[k].pc \in {"waiting", "monitoring"}}

\* C34: in every reachable state a campaign has at most one scheduler run
\* that has not come to its end
C34_OneRunPerCampaign ==
    \A cid \in DOMAIN db : Cardinality(LiveRuns(cid)) <= 1

\* C35: in every reachable state a campaign in the registry of active
\* campaigns is stored with the status active or paused and registered
\* with that status; only a successful start_campaign adds an entry, a
\* successful pause_campaign leaves the entry there with the status
\* paused, and a successful stop_campaign leaves the campaign unregistered
C35_RegistryHoldsActiveOrPaused ==
    /\ [](\A cid \in DOMAIN active_campaigns :
            /\ cid \in DOMAIN db
            /\ active_campaigns[cid].status \in {"active", "paused"}
            /\ db[cid].status = active_campaigns[cid].status)
    /\ [][\A cid \in Campaigns :
            /\ (cid \in DOMAIN active_campaigns' /\ cid \notin DOMAIN active_campaigns)
                  => (Called("start", cid) /\ result'.success)
            /\ (Called("pause", cid) /\ result'.success)
                  => /\ cid \in DOMAIN active_campaigns
                     /\ cid \in DOMAIN active_campaigns'
                     /\ active_campaigns'[cid].status = "paused"
            /\ (Called("stop", cid) /\ result'.success)
                  => cid \notin DOMAIN active_campaigns']_vars

\* a campaign that was paused and started again has just been paused a
\* second time: it is registered as paused, with both its scheduler runs
C35_Witness ==
    /\ result.op = "pause"
    /\ result.success
    /\ "c1" \in DOMAIN active_campaigns
    /\ active_campaigns["c1"].status = "paused"
    /\ Len(runs) = 2

C37_UnknownCampaignIsNotFound ==
    [][\A cid \in PairCampaigns : \A op \in {"start", "pause", "stop", "status"} :
         (Called(op, cid) /\ cid \notin DOMAIN db)
         => /\ ~result'.success
            /\ result'.error = "Campaign not found"
            /\ UNCHANGED <<db, active_campaigns, runs, calls, running_calls>>]_vars

\* get_campaign_status has just been refused for campaign c2, which was
\* never created, while campaign c1 has a call in flight
C37_Witness ==
    /\ result.op = "status"
    /\ result.cid = "c2"
    /\ ~result.success
    /\ result.error = "Campaign not found"
    /\ "c2" \notin DOMAIN db
    /\ Cardinality(InFlightOf("c1")) = 1

====
